---- MODULE Spec2Model ----
(***************************************************************************)
(* State-machine model of the dxlib streaming manager subsystem:           *)
(*   - the push listener        (dxlib/servers/websocket_server.py)        *)
(*   - the listener base        (dxlib/servers/server.py)                  *)
(*   - the manager composition  (dxlib/managers/generic_manager.py)        *)
(*   - the strategy manager and its connection command handler             *)
(*                              (dxlib/managers/strategy_manager.py)       *)
(*   - the history container    (dxlib/core/components/history.py)         *)
(* Python exceptions are modelled as values: an operation that raises      *)
(* yields the exception's class name instead of a result.                  *)
(***************************************************************************)
EXTENDS Integers, Sequences, FiniteSets, TLC

\* ------------------------------------------------------------------ bounds
\* Execution contexts a push listener may spawn over its life (start() calls).
MaxListenerThreads == 2
\* Worker contexts a manager may spawn over its life (threaded run() calls).
MaxWorkers == 1
\* Batches one update source yields.
MaxBatches == 2
\* Rows a history or snapshot message carries.
MaxMsgRows == 1
\* Rows the accumulated history may hold, entries the signal log may hold.
MaxRows == 3
MaxSignals == 3
\* Portfolios registered with one manager.
MaxSubscribers == 2
MaxPortfolios == 2

VARIABLES
    useServer,      \* GenericManager.__init__: use_server
    useWebsocket,   \* GenericManager.__init__: use_websocket
    httpd,          \* request/response listener: [running]
    ws,             \* push listener: [running, server, thread]
    wsThreads,      \* execution contexts of the push listener, each at a pc
    pc,             \* where the owning caller is (blocking calls take steps)
    ret,            \* the caller's last returned call: [op, value]
    strategy,       \* StrategyManager.strategy
    portfolios,     \* StrategyManager.portfolios: the Portfolio objects, in order
    history,        \* StrategyManager._history: the rows of the accumulated History
    signals,        \* StrategyManager.signals: the signal log
    running,        \* StrategyManager.running
    thread,         \* StrategyManager.thread: 0 (None) or a worker
    workers,        \* worker contexts: [kind, items, pc]
    registered_portfolios, \* MessageHandler.registered_portfolios: connection -> Portfolio
    registered_histories,  \* MessageHandler.registered_histories: connection -> History,
                           \* [kind, rows]: no entry ("none"), the object that is the
                           \* manager's _history ("same"), or another object ("other")
    conn,           \* each connection's receive loop (websocket_handler)
    sent,           \* send_message calls of the latest step: <<[to, payload]>>
    cycles,         \* execute() cycles of the latest step: <<[idx, signals, trades]>>
    endpoints,      \* Handler._endpoints of a request/response and of a push handler
    exception_queue, \* Server.exception_queue
    df,             \* History.df of a history used on its own: [names, rows]
    schema,         \* History.schema of that history: [securities]
    feed,           \* FeedManager: [running, thread, tpc, items, connections, caller]
    websockets      \* WebsocketHandler.websockets: channel -> subscriber list

listenerVars == <<useServer, useWebsocket, httpd, ws, wsThreads>>
managerVars == <<strategy, portfolios, history, signals, running, thread, workers>>
handlerVars == <<registered_portfolios, registered_histories, conn>>
outVars == <<sent, cycles>>
componentVars == <<endpoints, exception_queue, df, schema, feed, websockets>>
vars == <<useServer, useWebsocket, httpd, ws, wsThreads, pc, ret,
          strategy, portfolios, history, signals, running, thread, workers,
          registered_portfolios, registered_histories, conn, sent, cycles,
          endpoints, exception_queue, df, schema, feed, websockets>>

\* ServerStatus (dxlib/servers/server.py)
STARTED == "STARTED"
STOPPED == "STOPPED"

None == "None"

\* --------------------------------------------------------- push listener
\* A listener thread is live until asyncio.run(_serve()) returns or raises.
ThreadIsAlive(t) == t # 0 /\ wsThreads[t] \in {"bind", "loop"}

\* WebsocketServer.alive
WsAlive(l) == l.running /\ l.server # None /\ l.server = "serving"

\* Server.alive
ServerAlive(l) == l.running

\* A stop() that never takes the early return of line 64.
WsNeverAlreadyStopped(l) == FALSE

\* WebsocketServer.stop, line 64: the early return of an already stopped listener.
WsAlreadyStopped(l) == ~l.running

\* WebsocketServer.stop, lines 68-72: clear the flag, close a serving acceptor.
WsStopClose(l) ==
    [l EXCEPT !.running = FALSE,
              !.server = IF l.server # None /\ l.server = "serving" THEN None ELSE l.server]

\* WebsocketServer.start: set the flag, spawn the context, return STARTED.
\* The context binds later, in WsServeBind.
WsStarted(l) == [l EXCEPT !.running = TRUE, !.thread = Len(wsThreads) + 1]

\* WebsocketServer._serve, lines 44-46: bind the transport.  A bind on a port a
\* serving acceptor still holds raises OSError out of _serve (no handler
\* encloses the await), which ends the context.
WsServeBind(t) ==
    /\ t \in DOMAIN wsThreads
    /\ wsThreads[t] = "bind"
    /\ IF ws.server = "serving"
       THEN /\ wsThreads' = [wsThreads EXCEPT ![t] = "failed"]
            /\ ws' = ws
       ELSE /\ wsThreads' = [wsThreads EXCEPT ![t] = "loop"]
            /\ ws' = [ws EXCEPT !.server = "serving"]
    /\ UNCHANGED <<useServer, useWebsocket, httpd, pc, ret, managerVars, handlerVars, outVars>>
    /\ UNCHANGED componentVars

\* WebsocketServer._serve, lines 48-49: the loop ends once the flag is clear.
WsServeExit(t) ==
    /\ t \in DOMAIN wsThreads
    /\ wsThreads[t] = "loop"
    /\ ~ws.running
    /\ wsThreads' = [wsThreads EXCEPT ![t] = "done"]
    /\ UNCHANGED <<useServer, useWebsocket, httpd, ws, pc, ret, managerVars, handlerVars, outVars>>
    /\ UNCHANGED componentVars

\* ------------------------------------------------- request/response listener
\* start(): the transport is bound when start() returns.
HttpStarted(l) == [l EXCEPT !.running = TRUE]

\* stop(): clears the run flag; a no-op on a stopped listener.
HttpStopped(l) == [l EXCEPT !.running = FALSE]

\* ----------------------------------------------------- manager composition
\* GenericManager.is_alive:
\*   (self.server.is_alive() or not self.server) and
\*   (self.websocket.is_alive() or not self.websocket)
\* The call on the listener is evaluated before the "or not" test, so a
\* listener that is None raises AttributeError; a listener object is truthy,
\* so "not self.server" is False for a configured one.
ServerPart == IF ~useServer THEN "AttributeError"
              ELSE IF ServerAlive(httpd) THEN "True" ELSE "False"

WebsocketPart == IF ~useWebsocket THEN "AttributeError"
                 ELSE IF WsAlive(ws) THEN "True" ELSE "False"

IsAlive == IF ServerPart # "True" THEN ServerPart ELSE WebsocketPart

\* GenericManager.start: start the configured listeners, neither call blocks.
Start ==
    /\ pc = "idle"
    /\ ~useWebsocket \/ Len(wsThreads) < MaxListenerThreads
    /\ httpd' = IF useServer THEN HttpStarted(httpd) ELSE httpd
    /\ ws' = IF useWebsocket THEN WsStarted(ws) ELSE ws
    /\ wsThreads' = IF useWebsocket THEN Append(wsThreads, "bind") ELSE wsThreads
    /\ ret' = [op |-> "start", value |-> None]
    /\ UNCHANGED <<useServer, useWebsocket, pc, managerVars, handlerVars, outVars>>
    /\ UNCHANGED componentVars

\* GenericManager.stop up to the push listener's join: server.stop(), then
\* WebsocketServer.stop lines 64-72.
GenericStop ==
    /\ httpd' = IF useServer THEN HttpStopped(httpd) ELSE httpd
    /\ IF ~useWebsocket
       THEN /\ ws' = ws
            /\ pc' = "idle"
            /\ ret' = [op |-> "stop", value |-> None]
       ELSE IF WsAlreadyStopped(ws)
       THEN /\ ws' = ws
            /\ pc' = "idle"
            /\ ret' = [op |-> "stop", value |-> STOPPED]
       ELSE /\ ws' = WsStopClose(ws)
            /\ pc' = "ws_stop_check"
            /\ ret' = ret
    /\ UNCHANGED <<useServer, useWebsocket, wsThreads>>

\* WebsocketServer.stop, line 74: is the context still alive?
WsStopCheck ==
    /\ pc = "ws_stop_check"
    /\ IF ThreadIsAlive(ws.thread)
       THEN pc' = "ws_stop_join" /\ ret' = ret
       ELSE pc' = "idle" /\ ret' = [op |-> "stop", value |-> STOPPED]
    /\ UNCHANGED <<listenerVars, managerVars, handlerVars, outVars>>
    /\ UNCHANGED componentVars

\* WebsocketServer.stop, lines 75-79: join returns once the context has ended.
WsStopJoin ==
    /\ pc = "ws_stop_join"
    /\ ~ThreadIsAlive(ws.thread)
    /\ ws' = [ws EXCEPT !.thread = 0]
    /\ pc' = "idle"
    /\ ret' = [op |-> "stop", value |-> STOPPED]
    /\ UNCHANGED <<useServer, useWebsocket, httpd, wsThreads, managerVars, handlerVars, outVars>>
    /\ UNCHANGED componentVars

\* GenericManager.stop, called on a manager with no consumption loop.
Stop ==
    /\ pc = "idle"
    /\ GenericStop
    /\ UNCHANGED <<managerVars, handlerVars, outVars>>
    /\ UNCHANGED componentVars

\* The owner polls liveness.
PollAlive ==
    /\ pc = "idle"
    /\ ret' = [op |-> "is_alive", value |-> IsAlive]
    /\ UNCHANGED <<listenerVars, pc, managerVars, handlerVars, outVars>>
    /\ UNCHANGED componentVars

\* ------------------------------------------------------------ data model
Securities == {"AAPL", "MSFT"}
\* The order in which a mapping keyed by security is iterated.
SecOrder == <<"AAPL", "MSFT">>
\* One row of a history's df: its (date, security) index entry.  The manager
\* passes dates through without reading them; one date stands for all.
Times == {1}
Rows == [time : Times, security : Securities]

Conns == {"c1", "c2"}

EmptyMap == [k \in {} |-> 0]
Get(m, k) == IF k \in DOMAIN m THEN m[k] ELSE 0

\* Keys of a mapping, in iteration order.
RECURSIVE KeysFrom(_, _)
KeysFrom(m, i) ==
    IF i > Len(SecOrder) THEN <<>>
    ELSE (IF SecOrder[i] \in DOMAIN m THEN <<SecOrder[i]>> ELSE <<>>) \o KeysFrom(m, i + 1)
Keys(m) == KeysFrom(m, 1)

\* ------------------------------------------------------------- portfolio
\* Portfolio: cash and a position mapping; trade(security, signal) applies a
\* signal or raises ValueError (a domain error: not enough cash to buy, not
\* enough holdings to sell).  One unit trades for one unit of cash.
Signals == [side : {"BUY", "SELL"}, quantity : {1}]

CanTrade(p, sec, sig) ==
    IF sig.side = "BUY" THEN p.cash >= sig.quantity
    ELSE Get(p.position, sec) >= sig.quantity

Traded(p, sec, sig) ==
    LET q == IF sig.side = "BUY" THEN sig.quantity ELSE 0 - sig.quantity
    IN [cash |-> p.cash - q,
        position |-> [k \in DOMAIN p.position \cup {sec} |->
                        IF k = sec THEN Get(p.position, sec) + q ELSE p.position[k]]]

\* Well-formed portfolio descriptions a client or the owner may give.
PortfolioDescs ==
    { [cash |-> 1, position |-> EmptyMap],
      [cash |-> 0, position |-> [k \in {"AAPL"} |-> 1]] }

\* --------------------------------------------------------------- strategy
\* Strategy.execute(idx, position, history) -> mapping security -> Signal.
\* Two strategies stand for the implementations a manager is built with:
\*   "last": a signal for the security of the newest row only,
\*   "all":  a signal for every security in the history;
\* each sells a security the combined position holds and buys one it does not.
Strategies == {"last", "all"}

SecuritiesOf(rows) == {rows[i].security : i \in DOMAIN rows}

StrategyExecute(s, idx, position, rows) ==
    LET secs == IF s = "last" THEN {idx.security} ELSE SecuritiesOf(rows)
    IN [k \in secs |-> [side |-> IF k \in DOMAIN position THEN "SELL" ELSE "BUY",
                        quantity |-> 1]]

\* ---------------------------------------------------------------- execute
\* Counter.__add__: sums per key and keeps only the keys whose sum is positive.
CounterAdd(a, b) ==
    LET tot(k) == Get(a, k) + Get(b, k)
    IN [k \in {x \in DOMAIN a \cup DOMAIN b : tot(x) > 0} |-> tot(k)]

\* StrategyManager.execute, line 57: sum(Counter(p.position) for p ..., Counter())
RECURSIVE SumCounters(_, _)
SumCounters(ps, acc) ==
    IF ps = <<>> THEN acc
    ELSE SumCounters(Tail(ps), CounterAdd(acc, Head(ps).position))

CombinedPosition(ps) == SumCounters(ps, EmptyMap)

\* StrategyManager.execute, lines 60-61: the nested loop, security outermost.
RECURSIVE TradePlan(_, _, _)
TradePlan(keys, n, i) ==
    IF keys = <<>> THEN <<>>
    ELSE IF i > n THEN TradePlan(Tail(keys), n, 1)
    ELSE <<[security |-> Head(keys), portfolio |-> i]>> \o TradePlan(keys, n, i + 1)

\* An execute() that gives up the cycle at the first ValueError.
AbortOnValueError(rest) == <<>>

\* StrategyManager.execute, lines 65-66: the ValueError of one trade is logged
\* as a warning and the loops go on with what is left of the plan.
AfterValueError(rest) == rest

\* StrategyManager.execute, line 62: isinstance(portfolio, Portfolio).
\* register() appends whatever object it is given; line 57 reads .position
\* of each, so the objects here have one, and a Portfolio has cash as well.
IsPortfolio(p) == "cash" \in DOMAIN p

\* Registered objects that are not Portfolio instances.
OtherObjects == {[position |-> EmptyMap]}

\* The connections that have an entry in registered_portfolios.
RegisteredConns(regP) == {c \in DOMAIN regP : regP[c] # 0}

\* A send_signals that pushes every signal to every registered connection.
SendSignalsToAll(sigs, regP) ==
    [exc |-> None,
     sent |-> IF RegisteredConns(regP) = {} THEN <<>>
              ELSE [i \in 1..Len(Keys(sigs)) |->
                      [to |-> CHOOSE c \in RegisteredConns(regP) : TRUE,
                       payload |-> [kind |-> "signal", text |-> Keys(sigs)[i]]]]]

\* MessageHandler.send_signals, lines 149-155: the inner loop iterates the
\* dict registered_portfolios, that is its keys, the connections, and reads
\* .position of each: a connection has no such attribute, AttributeError is
\* raised at the first signal before any send_message call.  With no
\* registered connection the loops send nothing.
SendSignals(sigs, regP) ==
    [exc |-> IF Keys(sigs) # <<>> /\ RegisteredConns(regP) # {}
             THEN "AttributeError" ELSE None,
     sent |-> <<>>]

\* StrategyManager.execute, lines 60-68, in plan order: a Portfolio trades,
\* for any other registered object the signals are pushed to the connections.
\* st = [ps: the portfolios, trades: the trade() calls made so far,
\*       sent: the send_message calls made so far, exc: None or the
\*       exception that left execute()]
RECURSIVE ApplyTrades(_, _, _)
ApplyTrades(plan, sigs, st) ==
    IF plan = <<>> THEN st
    ELSE LET step == Head(plan)
             p == st.ps[step.portfolio]
             sig == sigs[step.security]
         IN IF ~IsPortfolio(p)
            THEN LET r == SendSignals(sigs, registered_portfolios)
                     st1 == [st EXCEPT !.sent = @ \o r.sent, !.exc = r.exc]
                 IN IF r.exc # None THEN st1
                    ELSE ApplyTrades(Tail(plan), sigs, st1)
            ELSE IF CanTrade(p, step.security, sig)
            THEN ApplyTrades(Tail(plan), sigs,
                   [st EXCEPT !.ps[step.portfolio] = Traded(p, step.security, sig),
                              !.trades = Append(@, [security |-> step.security,
                                                    portfolio |-> step.portfolio,
                                                    result |-> "ok"])])
            ELSE ApplyTrades(AfterValueError(Tail(plan)), sigs,
                   [st EXCEPT !.trades = Append(@, [security |-> step.security,
                                                    portfolio |-> step.portfolio,
                                                    result |-> "ValueError"])])

\* StrategyManager.execute on a non-empty history: the cycle's signals, the
\* portfolios after the trades, and the trade() calls it made.
Execute(s, ps, rows) ==
    LET idx == rows[Len(rows)]
        sigs == StrategyExecute(s, idx, CombinedPosition(ps), rows)
        done == ApplyTrades(TradePlan(Keys(sigs), Len(ps), 1), sigs,
                            [ps |-> ps, trades |-> <<>>, sent |-> <<>>, exc |-> None])
    IN [signals |-> sigs, ps |-> done.ps, sent |-> done.sent, exc |-> done.exc,
        cycle |-> [idx |-> idx, signals |-> sigs, trades |-> done.trades]]

\* ------------------------------------------------------------ consumption
SeqsUpTo(S, n) == UNION {[1..k -> S] : k \in 0..n}

\* What an update source yields.  A generator yields History batches (of one
\* row here); a DataFrame, or the df of a History, is iterated with
\* df.iterrows() (run, lines 98-101), which yields one (index, Series) tuple
\* per row.
Sources == [kind : {"Generator", "AsyncGenerator", "DataFrame"},
            data : SeqsUpTo(Rows, MaxBatches)]

Items(src) ==
    [i \in DOMAIN src.data |->
        [type |-> IF src.kind = "DataFrame" THEN "tuple" ELSE "History",
         rows |-> <<src.data[i]>>]]

RECURSIVE RowCount(_)
RowCount(items) ==
    IF items = <<>> THEN 0 ELSE Len(Head(items).rows) + RowCount(Tail(items))

\* History.__iadd__: anything but a History raises ValueError, a History's
\* rows are appended to self.df (pd.concat) and self is returned.
\* An in-place addition that takes whatever it is given.
IAddNeverRaises(bars) == FALSE

IAddRaises(bars) == bars.type # "History"

\* An in-place addition that keeps the batch's rows only.
IAddReplaces(rows, bars) == bars.rows

IAdd(rows, bars) == rows \o bars.rows

\* The manager state one loop iteration works on:
\*   [rows: the accumulated history's rows, ps: the portfolios,
\*    log: the signal log, cycles: the execute() cycles so far,
\*    sent: the send_message calls so far,
\*    exc: None or the exception that ended the loop]
\* One iteration of _consume / _async_consume (lines 76-78, 84-86):
\*   self._history += bars; execute(); self.signals.append(...)
\* execute() reads self.history.df.index[-1], an IndexError on an empty df.
ConsumeBatch(m, bars) ==
    IF IAddRaises(bars) THEN [m EXCEPT !.exc = "ValueError"]
    ELSE LET rows == IAdd(m.rows, bars)
         IN IF rows = <<>> THEN [m EXCEPT !.exc = "IndexError"]
            ELSE LET e == Execute(strategy, m.ps, rows)
                 IN [rows |-> rows, ps |-> e.ps,
                     log |-> IF e.exc = None THEN Append(m.log, e.signals) ELSE m.log,
                     cycles |-> Append(m.cycles, e.cycle),
                     sent |-> m.sent \o e.sent, exc |-> e.exc]

\* StrategyManager._consume, lines 83-86: every item, until one raises.
RECURSIVE ConsumeAll(_, _)
ConsumeAll(m, items) ==
    IF items = <<>> THEN m
    ELSE LET m1 == ConsumeBatch(m, Head(items))
         IN IF m1.exc # None THEN m1 ELSE ConsumeAll(m1, Tail(items))

\* StrategyManager._async_consume, lines 73-78: the run flag is tested after
\* each item is pulled; a clear flag ends the loop.
AsyncConsumeAll(m, items, flag) ==
    IF ~flag THEN m ELSE ConsumeAll(m, items)

Loaded == [rows |-> history, ps |-> portfolios, log |-> signals,
           cycles |-> <<>>, sent |-> <<>>, exc |-> None]

\* A register() that does not keep the portfolio.
RegisterDropped(ps, portfolio) == ps

\* StrategyManager.register, line 44: self.portfolios.append(portfolio)
Registered(ps, portfolio) == Append(ps, portfolio)

\* StrategyManager.register, called by the owner.
Register(desc) ==
    /\ pc = "idle"
    /\ Len(portfolios) < MaxPortfolios
    /\ portfolios' = Registered(portfolios, desc)
    /\ ret' = [op |-> "register", value |-> None]
    /\ cycles' = <<>>
    /\ UNCHANGED sent
    /\ UNCHANGED <<listenerVars, pc, strategy, history, signals, running,
                   thread, workers, handlerVars>>
    /\ UNCHANGED componentVars

\* StrategyManager.run(subscription, threaded=False), lines 109-114: the
\* caller consumes the source itself.  When the loop raises, the exception
\* leaves run() and line 79 / 87 (running = False) is not reached.
RunBlocking(src) ==
    /\ pc = "idle"
    /\ Len(history) + RowCount(Items(src)) <= MaxRows
    /\ Len(signals) + Len(Items(src)) <= MaxSignals
    /\ \E m \in {IF src.kind = "AsyncGenerator"
                  THEN AsyncConsumeAll(Loaded, Items(src), running)
                  ELSE ConsumeAll(Loaded, Items(src))} :
          /\ history' = m.rows
          /\ portfolios' = m.ps
          /\ signals' = m.log
          /\ cycles' = m.cycles
          /\ sent' = m.sent
          /\ running' = IF m.exc = None THEN FALSE ELSE running
          /\ ret' = [op |-> "run", value |-> m.exc]
    /\ UNCHANGED <<listenerVars, pc, strategy, thread, workers, handlerVars>>
    /\ UNCHANGED componentVars

\* StrategyManager.run(subscription, threaded=True), lines 103-107: the worker
\* is created and started; line 108 is the caller's next step.
\* A worker: [kind, items: what its source has still to yield, pc,
\*            fed: batches its source held, logged: entries it appended]
RunThreaded(src) ==
    /\ pc = "idle"
    /\ Len(workers) < MaxWorkers
    /\ workers' = Append(workers,
                         [kind |-> IF src.kind = "AsyncGenerator" THEN "async" ELSE "sync",
                          items |-> Items(src), pc |-> "run",
                          fed |-> Len(Items(src)), logged |-> 0])
    /\ thread' = Len(workers) + 1
    /\ pc' = "run_set_running"
    /\ cycles' = <<>>
    /\ UNCHANGED sent
    /\ UNCHANGED <<listenerVars, ret, strategy, portfolios, history, signals,
                   running, handlerVars>>
    /\ UNCHANGED componentVars

\* StrategyManager.run, line 108 and the return.
RunSetRunning ==
    /\ pc = "run_set_running"
    /\ running' = TRUE
    /\ pc' = "idle"
    /\ ret' = [op |-> "run", value |-> None]
    /\ UNCHANGED <<listenerVars, strategy, portfolios, history, signals,
                   thread, workers, handlerVars, outVars>>
    /\ UNCHANGED componentVars

\* One iteration of the worker's loop: pull the next item; in _async_consume
\* test the flag (line 74) and leave the loop when it is clear (line 79 then
\* clears it again); otherwise consume the item.  An exception ends the worker.
WorkerStep(w) ==
    /\ w \in DOMAIN workers
    /\ workers[w].pc = "run"
    /\ workers[w].items # <<>>
    /\ LET bars == Head(workers[w].items)
       IN IF workers[w].kind = "async" /\ ~running
          THEN /\ workers' = [workers EXCEPT ![w].pc = "done", ![w].items = Tail(@)]
               /\ running' = FALSE
               /\ cycles' = <<>>
               /\ sent' = <<>>
               /\ UNCHANGED <<history, portfolios, signals>>
          ELSE /\ Len(history) + Len(bars.rows) <= MaxRows
               /\ Len(signals) < MaxSignals
               /\ \E m \in {ConsumeBatch(Loaded, bars)} :
                     /\ history' = m.rows
                     /\ portfolios' = m.ps
                     /\ signals' = m.log
                     /\ cycles' = m.cycles
                     /\ sent' = m.sent
                     /\ workers' = IF m.exc # None
                                   THEN [workers EXCEPT ![w].pc = "failed", ![w].items = Tail(@)]
                                   ELSE [workers EXCEPT ![w].items = Tail(@),
                                                        ![w].logged = @ + 1]
                     /\ running' = running
    /\ UNCHANGED <<listenerVars, pc, ret, strategy, thread, handlerVars>>
    /\ UNCHANGED componentVars

\* The source is exhausted: line 79 / 87 clears the flag and the worker ends.
WorkerEnd(w) ==
    /\ w \in DOMAIN workers
    /\ workers[w].pc = "run"
    /\ workers[w].items = <<>>
    /\ workers' = [workers EXCEPT ![w].pc = "done"]
    /\ running' = FALSE
    /\ UNCHANGED <<listenerVars, pc, ret, strategy, portfolios, history, signals,
                   thread, handlerVars, outVars>>
    /\ UNCHANGED componentVars

WorkerIsAlive(w) == w # 0 /\ workers[w].pc = "run"

\* StrategyManager.stop, lines 91-93: clear the flag; with a worker, join it
\* (line 94) before the listeners are stopped (line 95).
StrategyStop ==
    /\ pc = "idle"
    /\ running' = FALSE
    /\ IF thread # 0
       THEN /\ pc' = "stop_join_worker"
            /\ UNCHANGED <<listenerVars, ret>>
       ELSE GenericStop
    /\ UNCHANGED <<strategy, portfolios, history, signals, thread, workers,
                   handlerVars, outVars>>
    /\ UNCHANGED componentVars

\* StrategyManager.stop, lines 94-95: the join returns once the worker ended.
StopJoinWorker ==
    /\ pc = "stop_join_worker"
    /\ ~WorkerIsAlive(thread)
    /\ GenericStop
    /\ UNCHANGED <<managerVars, handlerVars, outVars>>
    /\ UNCHANGED componentVars

\* ------------------------------------------------ connection command handler
\* A message as it arrives on a connection:
\*   json: whether json.loads accepts the text;
\*   key:  the one of portfolio / history / snapshot the object carries, or
\*         another key;
\*   ok:   whether the description under the key constructs its object
\*         (Portfolio(**d) / History(**d)); a malformed one raises TypeError;
\*   desc: the portfolio described, rows: the rows of the history described.
NoDesc == [cash |-> 0, position |-> EmptyMap]
NoMsg == [json |-> TRUE, key |-> None, ok |-> FALSE, desc |-> NoDesc, rows |-> <<>>]
\* The portfolio bodies that arrive in messages.
MsgPortfolioDescs == {[cash |-> 1, position |-> EmptyMap]}

Msgs ==
    {[json |-> FALSE, key |-> None, ok |-> FALSE, desc |-> NoDesc, rows |-> <<>>]}
    \cup {[json |-> TRUE, key |-> "unexpected_key", ok |-> FALSE, desc |-> NoDesc, rows |-> <<>>]}
    \cup {[json |-> TRUE, key |-> k, ok |-> FALSE, desc |-> NoDesc, rows |-> <<>>] :
            k \in {"portfolio", "history", "snapshot"}}
    \cup {[json |-> TRUE, key |-> "portfolio", ok |-> TRUE, desc |-> d, rows |-> <<>>] :
            d \in MsgPortfolioDescs}
    \cup {[json |-> TRUE, key |-> k, ok |-> TRUE, desc |-> NoDesc, rows |-> r] :
            k \in {"history", "snapshot"}, r \in SeqsUpTo(Rows, MaxMsgRows)}

\* What send_message is given: a response string or an exception.
Reply(text) == [kind |-> "response", text |-> text]
Error(class, text) == [kind |-> class, text |-> text]

\* registered_histories holds references.  An entry that is the manager's
\* History object changes with it (History.__iadd__ mutates self.df and
\* returns self); once the manager's _history is assigned another object,
\* the entry keeps the object it has, with the rows it had then.
NoHistory == [kind |-> "none", rows |-> <<>>]
SameHistory == [kind |-> "same", rows |-> <<>>]
Detached(regH, rows) ==
    [c \in Conns |-> IF regH[c].kind = "same" THEN [kind |-> "other", rows |-> rows]
                     ELSE regH[c]]
\* The rows of the History a connection has registered.
RegisteredRows(c) ==
    IF registered_histories[c].kind = "same" THEN history ELSE registered_histories[c].rows

\* MessageHandler._register_snapshot, line 141: no history yet.
NoHistoryYet == history = <<>>

\* MessageHandler.process.
\* The outcome of process(websocket, message) on the current state:
\*   [exc, payload, ps, hist, regP, regH, running, log, cycles]
\* exc is the exception process raises (None when it returns), payload the
\* string it returns (the exception, when it raises).
Outcome(exc, payload, ps, hist, regP, regH, flag) ==
    [exc |-> exc, payload |-> payload, ps |-> ps, hist |-> hist,
     regP |-> regP, regH |-> regH, running |-> flag, log |-> signals, cycles |-> <<>>]

Raised(class, text) ==
    Outcome(class, Error(class, text), portfolios, history,
            registered_portfolios, registered_histories, running)

\* _register_history, lines 133-135, then process line 168 / 172: a new
\* History becomes the manager's history and the connection's.
HistoryRegistered(c, rows, text) ==
    LET regH == [Detached(registered_histories, history) EXCEPT ![c] = SameHistory]
    IN Outcome(None, Reply(text), portfolios, rows, registered_portfolios, regH, running)

\* MessageHandler.process, line 173, after the registration of line 172: the
\* reply is formatted with self.manager.history.to_json(), and History
\* (history.py, lines 107-351) defines no to_json: AttributeError.
ToJson(o) ==
    [o EXCEPT !.exc = "AttributeError",
              !.payload = Error("AttributeError", "'History' object has no attribute 'to_json'")]

\* _register_snapshot, lines 143-144, then process lines 172-173: run() the
\* snapshot's History, which run() iterates with df.iterrows().
SnapshotRun(c, rows) ==
    LET m == ConsumeAll(Loaded, Items([kind |-> "DataFrame", data |-> rows]))
        regH == [registered_histories EXCEPT ![c] = SameHistory]
    IN IF m.exc # None
       THEN [Outcome(m.exc, Error(m.exc, "Invalid type <class tuple> for other"), m.ps, m.rows,
                     registered_portfolios, registered_histories, running)
             EXCEPT !.log = m.log, !.cycles = m.cycles]
       ELSE ToJson([Outcome(None, Reply("Snapshot registered"), m.ps, m.rows,
                             registered_portfolios, regH, FALSE)
                     EXCEPT !.log = m.log, !.cycles = m.cycles])

Process(c, msg) ==
    IF msg.key = "portfolio"
    THEN IF ~msg.ok THEN Raised("TypeError", "Message does not contain a valid portfolio")
         ELSE Outcome(None, Reply("Portfolio registered"),
                      Registered(portfolios, msg.desc), history,
                      [registered_portfolios EXCEPT ![c] = Len(portfolios) + 1],
                      registered_histories, running)
    ELSE IF msg.key = "history"
    THEN IF ~msg.ok THEN Raised("TypeError", "Message does not contain a valid portfolio")
         ELSE HistoryRegistered(c, msg.rows, "History registered")
    ELSE IF msg.key = "snapshot"
    THEN IF ~msg.ok THEN Raised("TypeError", "Message does not contain a valid portfolio")
         ELSE IF NoHistoryYet
         THEN ToJson(HistoryRegistered(c, msg.rows, "Snapshot registered"))
         ELSE SnapshotRun(c, msg.rows)
    ELSE Raised("ValueError", "Message does not contain any valid information")

\* MessageHandler.handle, lines 186-189: a text json.loads rejects raises
\* TypeError, outside the try block that reports errors to the sender.
DecodeRaises(msg) == ~msg.json

\* A handler that reports TypeError only.
CaughtTypeErrorOnly(exc) == exc = "TypeError"

\* MessageHandler.handle, lines 194-196: these are caught and sent back.
Caught(exc) == exc \in {"ValueError", "TypeError"}

\* WebsocketServer.websocket_handler, lines 26-33, one message of the receive
\* loop: handle() it; an exception other than ConnectionClosedError leaves
\* the coroutine, which ends the loop without the disconnect callback.
Handle(c, msg) ==
    /\ conn[c] = "open"
    /\ msg.key = "portfolio" /\ msg.ok => Len(portfolios) < MaxPortfolios
    /\ msg.key \in {"history", "snapshot"} /\ msg.ok =>
          Len(history) + Len(msg.rows) <= MaxRows
    /\ IF DecodeRaises(msg)
       THEN /\ sent' = <<>>
            /\ cycles' = <<>>
            /\ conn' = [conn EXCEPT ![c] = "failed"]
            /\ UNCHANGED <<portfolios, history, signals, running,
                           registered_portfolios, registered_histories>>
       ELSE \E o \in {Process(c, msg)} :
               /\ portfolios' = o.ps
               /\ history' = o.hist
               /\ running' = o.running
               /\ registered_portfolios' = o.regP
               /\ registered_histories' = o.regH
               /\ signals' = o.log
               /\ cycles' = o.cycles
               /\ IF o.exc = None \/ Caught(o.exc)
                  THEN /\ sent' = <<[to |-> c, payload |-> o.payload]>>
                       /\ conn' = conn
                  ELSE /\ sent' = <<>>
                       /\ conn' = [conn EXCEPT ![c] = "failed"]
    /\ UNCHANGED <<listenerVars, pc, ret, strategy, thread, workers>>
    /\ UNCHANGED componentVars

\* A listener context is serving connections.
Serving == \E t \in DOMAIN wsThreads : wsThreads[t] = "loop"

\* WebsocketServer.websocket_handler, line 24, with MessageHandler.connect:
\* the portfolio endpoint calls _register_portfolio() with no description,
\* Portfolio(**None) raises TypeError, which leaves connect and the
\* coroutine; the history endpoint registers an empty History as the
\* manager's history and the connection's.
Connect(c, endpoint) ==
    /\ conn[c] = "new"
    /\ Serving
    /\ IF endpoint = "portfolio"
       THEN /\ conn' = [conn EXCEPT ![c] = "failed"]
            /\ UNCHANGED <<history, registered_histories>>
       ELSE IF endpoint = "history"
       THEN LET o == HistoryRegistered(c, <<>>, "History connected")
            IN /\ conn' = [conn EXCEPT ![c] = "open"]
               /\ history' = o.hist
               /\ registered_histories' = o.regH
       ELSE /\ conn' = [conn EXCEPT ![c] = "open"]
            /\ UNCHANGED <<history, registered_histories>>
    /\ sent' = <<>>
    /\ cycles' = <<>>
    /\ UNCHANGED <<listenerVars, pc, ret, strategy, portfolios, signals, running, thread,
                   workers, registered_portfolios>>
    /\ UNCHANGED componentVars

\* WebsocketServer.websocket_handler, lines 27-33: the client closes, normally
\* or with ConnectionClosedError; MessageHandler.disconnect does nothing.
Close(c) ==
    /\ conn[c] = "open"
    /\ conn' = [conn EXCEPT ![c] = "closed"]
    /\ UNCHANGED <<listenerVars, pc, ret, managerVars, registered_portfolios,
                   registered_histories, outVars>>
    /\ UNCHANGED componentVars

\* ------------------------------------------------------- route registries
\* Route names, verbs and the callables bound to them.
RouteNames == {"history", "signals"}
Methods == {"GET", "POST"}
Funcs == {"f", "g"}

\* An EndpointWrapper: route_name, and method for request/response routes.
EndpointWrappers == [route_name : RouteNames, method : Methods]

\* dict.get(route_name, {})
RouteOf(eps, name) == IF name \in DOMAIN eps THEN eps[name] ELSE EmptyMap

\* dict.__setitem__
SetItem(d, k, v) == [x \in DOMAIN d \cup {k} |-> IF x = k THEN v ELSE d[x]]

\* A set_endpoint that starts the route's dict afresh.
HttpSetEndpointFresh(eps, endpoint, func) ==
    SetItem(eps, endpoint.route_name,
            SetItem(EmptyMap, endpoint.method, [endpoint |-> endpoint, func |-> func]))

\* HTTPHandler.set_endpoint, lines 38-41.
HttpSetEndpoint(eps, endpoint, func) ==
    SetItem(eps, endpoint.route_name,
            SetItem(RouteOf(eps, endpoint.route_name), endpoint.method,
                    [endpoint |-> endpoint, func |-> func]))

\* WebsocketHandler.set_endpoint, lines 58-59.
WsSetEndpoint(eps, endpoint, func) ==
    SetItem(eps, endpoint.route_name, [endpoint |-> endpoint, func |-> func])

\* A registration on the request/response handler.
SetHttpEndpoint(endpoint, func) ==
    /\ endpoints' = [endpoints EXCEPT !.http = HttpSetEndpoint(@, endpoint, func)]
    /\ UNCHANGED <<listenerVars, pc, ret, managerVars, handlerVars, outVars,
                   exception_queue, df, schema, feed, websockets>>

\* A registration on the push handler.
SetWsEndpoint(endpoint, func) ==
    /\ endpoints' = [endpoints EXCEPT !.ws = WsSetEndpoint(@, endpoint, func)]
    /\ UNCHANGED <<listenerVars, pc, ret, managerVars, handlerVars, outVars,
                   exception_queue, df, schema, feed, websockets>>

\* ------------------------------------------------------------ construction
\* Handler.__init__, Server.__init__, History.__init__ with no arguments.
InitComponents ==
    /\ endpoints = [http |-> EmptyMap, ws |-> EmptyMap]
    /\ exception_queue = <<>>
    /\ df = [names |-> <<"date", "security">>, rows |-> <<>>]
    /\ schema = [securities |-> {}]
    /\ websockets = EmptyMap
    /\ feed = [running |-> FALSE, thread |-> 0, tpc |-> "none", items |-> <<>>,
               connections |-> <<>>, caller |-> "idle"]

\* GenericManager.__init__ / WebsocketServer.__init__ / Server.__init__
InitListeners ==
    /\ httpd = [running |-> FALSE]
    /\ ws = [running |-> FALSE, server |-> None, thread |-> 0]
    /\ wsThreads = <<>>

\* StrategyManager.__init__ / MessageHandler.__init__
InitManager ==
    /\ strategy \in Strategies
    /\ portfolios = <<>>
    /\ history = <<>>
    /\ signals = <<>>
    /\ running = FALSE
    /\ thread = 0
    /\ workers = <<>>
    /\ registered_portfolios = [c \in Conns |-> 0]
    /\ registered_histories = [c \in Conns |-> NoHistory]
    /\ conn = [c \in Conns |-> "new"]
    /\ sent = <<>>
    /\ cycles = <<>>
    /\ pc = "idle"
    /\ ret = [op |-> "init", value |-> None]

ListenerStep ==
    \/ \E t \in 1..MaxListenerThreads : WsServeBind(t)
    \/ \E t \in 1..MaxListenerThreads : WsServeExit(t)

\* A manager of any listener configuration, started, polled and stopped.
InitLifecycle ==
    /\ useServer \in BOOLEAN
    /\ useWebsocket \in BOOLEAN
    /\ InitListeners
    /\ InitManager
    /\ InitComponents

NextLifecycle ==
    \/ Start
    \/ Stop
    \/ WsStopCheck
    \/ WsStopJoin
    \/ PollAlive
    \/ ListenerStep

SpecLifecycle == InitLifecycle /\ [][NextLifecycle]_vars

\* A manager without listeners whose owner registers portfolios and runs
\* update sources.
InitRun ==
    /\ useServer = FALSE
    /\ useWebsocket = FALSE
    /\ InitListeners
    /\ InitManager
    /\ InitComponents

\* Blocking runs only: the caller consumes every source itself.
NextRun ==
    \/ \E d \in PortfolioDescs : Register(d)
    \/ \E src \in Sources : RunBlocking(src)
    \/ StrategyStop

SpecRun == InitRun /\ [][NextRun]_vars

\* Blocking and threaded runs, and stop() joining the worker.
NextThreaded ==
    \/ \E d \in PortfolioDescs : Register(d)
    \/ \E src \in Sources : RunBlocking(src)
    \/ \E src \in Sources : RunThreaded(src)
    \/ RunSetRunning
    \/ \E w \in 1..MaxWorkers : WorkerStep(w)
    \/ \E w \in 1..MaxWorkers : WorkerEnd(w)
    \/ StrategyStop
    \/ StopJoinWorker

SpecThreaded == InitRun /\ [][NextThreaded]_vars

\* A manager whose push listener is serving, and the connections' messages.
InitHandler ==
    /\ useServer = FALSE
    /\ useWebsocket = TRUE
    /\ httpd = [running |-> FALSE]
    /\ ws = [running |-> TRUE, server |-> "serving", thread |-> 1]
    /\ wsThreads = <<"loop">>
    /\ InitManager
    /\ InitComponents

NextHandler ==
    \/ \E c \in Conns, e \in {"portfolio", "history", "signals"} : Connect(c, e)
    \/ \E c \in Conns, msg \in Msgs : Handle(c, msg)
    \/ \E c \in Conns : Close(c)

SpecHandler == InitHandler /\ [][NextHandler]_vars

\* A manager whose push listener is serving one connection while its owner
\* runs update sources.
SessionConns == {"c1"}

NextSession ==
    \/ \E c \in SessionConns, e \in {"history", "signals"} : Connect(c, e)
    \/ \E c \in SessionConns, msg \in Msgs : Handle(c, msg)
    \/ \E src \in Sources : RunBlocking(src)

InitSession == InitHandler /\ strategy = "last"

SpecSession == InitSession /\ [][NextSession]_vars

\* A manager serving connections that register portfolios, whose owner
\* registers portfolios and other objects and runs update sources.
NextPush ==
    \/ \E c \in Conns : Connect(c, "signals")
    \/ \E c \in Conns, msg \in {x \in Msgs : x.key = "portfolio"} : Handle(c, msg)
    \/ \E d \in PortfolioDescs \cup OtherObjects : Register(d)
    \/ \E src \in Sources : RunBlocking(src)

SpecPush == InitSession /\ [][NextPush]_vars

\* Route registrations on a request/response handler and on a push handler.
NextRegistry ==
    \/ \E e \in EndpointWrappers, f \in Funcs : SetHttpEndpoint(e, f)
    \/ \E e \in EndpointWrappers, f \in Funcs : SetWsEndpoint(e, f)

SpecRegistry == InitRun /\ [][NextRegistry]_vars

\* ================================================================ properties
\* ------------------------------------------------------ listener lifecycle
\* A stop() call returns to its caller in this step.
StopReturns == (Stop \/ WsStopCheck \/ WsStopJoin) /\ pc' = "idle"

\* C2: is_alive() is true immediately after start() returns and false
\* immediately after stop() returns, without raising, in each of the four
\* listener configurations (none, request/response only, push only, both).
C2_AliveFollowsStartStop ==
    [][/\ Start => (IsAlive = "True")'
       /\ StopReturns => (IsAlive = "False")']_vars

\* C3: in every reachable state is_alive() equals the conjunction of the
\* liveness of the configured listeners, a listener that is not configured
\* counting as alive; a manager with no listener reports alive.
C3_AliveIsConjunction ==
    IsAlive = IF /\ useServer => ServerAlive(httpd)
                 /\ useWebsocket => WsAlive(ws)
              THEN "True" ELSE "False"

\* C4: stop() on a push listener that is already stopped (never started, or
\* stopped by the previous call) changes no listener state, raises nothing
\* and returns the STOPPED status.
C4_StopIdempotent ==
    [][(Stop /\ useWebsocket /\ ret.op \in {"init", "stop"})
         => /\ ws' = ws
            /\ wsThreads' = wsThreads
            /\ ret' = [op |-> "stop", value |-> STOPPED]]_vars

\* stop() has returned STOPPED on a push listener that was never started.
C4_StoppedNeverStarted ==
    /\ useWebsocket
    /\ wsThreads = <<>>
    /\ ~ws.running
    /\ ret = [op |-> "stop", value |-> STOPPED]

\* ------------------------------------------------------------ consumption
\* C1: once run() has exhausted a source of N batches (no stop() issued), the
\* signal log has grown by exactly N entries, the k-th new entry being the
\* signals execute() produced for the k-th batch.
C1_LogGrowsByBatches ==
    [][\A src \in Sources :
          RunBlocking(src) =>
              /\ Len(signals') = Len(signals) + Len(src.data)
              /\ Len(cycles') = Len(src.data)
              /\ \A k \in 1..Len(src.data) :
                    signals'[Len(signals) + k] = cycles'[k].signals]_vars

\* C5: within one execute() cycle every signal is applied to every registered
\* portfolio: a ValueError raised by one portfolio's trade() stops neither
\* the same signal from reaching the other portfolios nor the signals left.
C5_EverySignalToEveryPortfolio ==
    \A k \in DOMAIN cycles :
        \A sec \in DOMAIN cycles[k].signals :
            \A i \in 1..Len(portfolios) :
                \E t \in DOMAIN cycles[k].trades :
                    /\ cycles[k].trades[t].security = sec
                    /\ cycles[k].trades[t].portfolio = i

\* A cycle in which one portfolio's trade() raised ValueError, and after it
\* the same signal was applied to another portfolio and another signal was
\* applied as well.
C5_TradeAfterValueError ==
    \E k \in DOMAIN cycles :
        \E t1, t2, t3 \in DOMAIN cycles[k].trades :
            /\ t1 < t2 /\ t1 < t3
            /\ cycles[k].trades[t1].result = "ValueError"
            /\ cycles[k].trades[t2].security = cycles[k].trades[t1].security
            /\ cycles[k].trades[t2].portfolio # cycles[k].trades[t1].portfolio
            /\ cycles[k].trades[t3].security # cycles[k].trades[t1].security

\* ------------------------------------------------ connection command handler
\* A snapshot message of one update row, arriving while the accumulated
\* history is not empty.
SnapshotOfOneRow(msg) ==
    /\ msg.key = "snapshot" /\ msg.ok /\ Len(msg.rows) = 1
    /\ history # <<>>

\* C6: for a connection that sent a portfolio message and then sends a
\* snapshot message, handling the snapshot causes exactly one execute()
\* cycle and appends exactly one entry to the signal log.
C6_SnapshotRunsOneCycle ==
    [][\A c \in Conns, msg \in Msgs :
          (SnapshotOfOneRow(msg) /\ registered_portfolios[c] # 0 /\ Handle(c, msg))
            => /\ Len(cycles') = 1
               /\ Len(signals') = Len(signals) + 1]_vars

\* C7: handling a message whose portfolio key holds a well-formed description
\* increases the number of registered portfolios by one, records the new
\* portfolio against the sending connection and sends that connection a
\* confirmation string.
C7_PortfolioRegistered ==
    [][\A c \in Conns, msg \in Msgs :
          (msg.json /\ msg.key = "portfolio" /\ msg.ok /\ Handle(c, msg))
            => /\ Len(portfolios') = Len(portfolios) + 1
               /\ portfolios'[Len(portfolios')] = msg.desc
               /\ registered_portfolios'[c] = Len(portfolios')
               /\ sent' = <<[to |-> c, payload |-> Reply("Portfolio registered")]>>]_vars

\* A connection has been sent the confirmation of the portfolio that is now
\* the last one registered and is recorded against it.
C7_ConfirmationSent ==
    \E c \in Conns :
        /\ sent = <<[to |-> c, payload |-> Reply("Portfolio registered")]>>
        /\ portfolios # <<>>
        /\ registered_portfolios[c] = Len(portfolios)

\* C8: with an accumulated history of R rows (R > 0), handling a snapshot
\* message of one update row leaves the history with the R rows followed by
\* the new one, registers that history against the sending connection and
\* replies to the sender with the serialized history.
C8_SnapshotAppendsRow ==
    [][\A c \in Conns, msg \in Msgs :
          (SnapshotOfOneRow(msg) /\ Handle(c, msg))
            => /\ history' = history \o msg.rows
               /\ registered_histories'[c] = SameHistory
               /\ Len(sent') = 1
               /\ sent'[1].to = c
               /\ sent'[1].payload.kind = "response"]_vars

C10_DecodeErrorReported ==
    [][\A c \in Conns, msg \in Msgs :
          (~msg.json /\ Handle(c, msg))
            => /\ Len(sent') = 1
               /\ sent'[1].to = c
               /\ sent'[1].payload.kind = "TypeError"
               /\ conn'[c] = "open"]_vars

\* ------------------------------------------------------- route registries
\* What a lookup of a key without handler yields.
NoHandler == [endpoint |-> [route_name |-> None, method |-> None], func |-> None]

\* The handler a request/response registry holds for (name, verb).
HttpHandlerAt(eps, name, method) ==
    IF name \in DOMAIN eps /\ method \in DOMAIN eps[name] THEN eps[name][method]
    ELSE NoHandler

\* The handler a push registry holds for name.
WsHandlerAt(eps, name) == IF name \in DOMAIN eps THEN eps[name] ELSE NoHandler

\* C11: a registry holds one handler per (name, verb) key, respectively per
\* push-route name; after a set_endpoint registration the key holds the
\* handler just registered (last write wins) and every other key holds the
\* handler it held before.
C11_LastWriteWins ==
    [][\A e \in EndpointWrappers, f \in Funcs :
          /\ SetHttpEndpoint(e, f) =>
                \A n \in RouteNames, m \in Methods :
                    HttpHandlerAt(endpoints'.http, n, m) =
                        IF n = e.route_name /\ m = e.method
                        THEN [endpoint |-> e, func |-> f]
                        ELSE HttpHandlerAt(endpoints.http, n, m)
          /\ SetWsEndpoint(e, f) =>
                \A n \in RouteNames :
                    WsHandlerAt(endpoints'.ws, n) =
                        IF n = e.route_name
                        THEN [endpoint |-> e, func |-> f]
                        ELSE WsHandlerAt(endpoints.ws, n)]_vars

\* Both registries hold handlers under several keys, two verbs of one
\* request/response route bound to different callables.
C11_SeveralKeysRegistered ==
    /\ \E n \in DOMAIN endpoints.http :
          /\ DOMAIN endpoints.http[n] = Methods
          /\ endpoints.http[n]["GET"].func # endpoints.http[n]["POST"].func
    /\ DOMAIN endpoints.ws = RouteNames

\* ------------------------------------------------------ accumulated history
\* The rows of a are the first rows of b.
IsPrefix(a, b) == Len(a) <= Len(b) /\ \A i \in DOMAIN a : b[i] = a[i]

HistoryRegistration ==
    \/ \E c \in Conns : Connect(c, "history")
    \/ \E c \in Conns, msg \in Msgs :
          msg.json /\ msg.key = "history" /\ msg.ok /\ Handle(c, msg)

HeldBy(c) ==
    IF registered_portfolios[c] = 0 THEN {}
    ELSE DOMAIN portfolios[registered_portfolios[c]].position

RegisteredState(c) ==
    [portfolio |-> registered_portfolios[c],
     desc |-> IF registered_portfolios[c] = 0 THEN NoDesc
              ELSE portfolios[registered_portfolios[c]],
     hasHistory |-> registered_histories[c].kind # "none",
     rows |-> RegisteredRows(c)]

\* The step handles a connect or a message of connection c.
StepOf(c) ==
    \/ \E e \in {"portfolio", "history", "signals"} : Connect(c, e)
    \/ \E msg \in Msgs : Handle(c, msg)

LoopFaults == {"CancelledError", "KeyboardInterrupt"}

\* WebsocketServer._serve, lines 50-51: the wait of the loop is interrupted;
\* the exception is put on the fault queue and _serve returns.
WsServeInterrupted(t, e) ==
    /\ t \in DOMAIN wsThreads
    /\ wsThreads[t] = "loop"
    /\ wsThreads' = [wsThreads EXCEPT ![t] = "done"]
    /\ exception_queue' = Append(exception_queue, e)
    /\ UNCHANGED <<useServer, useWebsocket, httpd, ws, pc, ret, managerVars, handlerVars, outVars>>
    /\ UNCHANGED <<endpoints, df, schema, feed, websockets>>

\* A dequeue that takes the newest record.
GetNowaitNewest(q) ==
    IF q = <<>> THEN [value |-> None, queue |-> q]
    ELSE [value |-> q[Len(q)], queue |-> SubSeq(q, 1, Len(q) - 1)]

\* queue.Queue.get_nowait with the queue.Empty handler of get_exceptions.
GetNowait(q) ==
    IF q = <<>> THEN [value |-> None, queue |-> q]
    ELSE [value |-> Head(q), queue |-> Tail(q)]

\* Server.get_exceptions, called by the listener's owner.
GetExceptions ==
    /\ pc = "idle"
    /\ \E o \in {GetNowait(exception_queue)} :
          /\ ret' = [op |-> "get_exceptions", value |-> o.value]
          /\ exception_queue' = o.queue
    /\ UNCHANGED <<listenerVars, pc, managerVars, handlerVars, outVars>>
    /\ UNCHANGED <<endpoints, df, schema, feed, websockets>>

\* A manager with a push listener, started and stopped by its owner, whose
\* listener loop may be interrupted and whose owner drains the fault queue.
InitFaults ==
    /\ useServer = FALSE
    /\ useWebsocket = TRUE
    /\ InitListeners
    /\ InitManager
    /\ InitComponents

NextFaults ==
    \/ Start
    \/ Stop
    \/ WsStopCheck
    \/ WsStopJoin
    \/ ListenerStep
    \/ \E t \in 1..MaxListenerThreads : \E e \in LoopFaults : WsServeInterrupted(t, e)
    \/ GetExceptions

SpecFaults == InitFaults /\ [][NextFaults]_vars

\* C15: a call of get_exceptions() on a non-empty fault queue returns the
\* oldest pending record and leaves the others in their order, one record
\* fewer; on an empty queue it returns None and leaves the queue empty.
C15_OldestOrNone ==
    [][GetExceptions =>
         IF exception_queue = <<>>
         THEN ret'.value = None /\ exception_queue' = <<>>
         ELSE /\ ret'.value = exception_queue[1]
              /\ Len(exception_queue') = Len(exception_queue) - 1
              /\ \A i \in 1..Len(exception_queue') :
                     exception_queue'[i] = exception_queue[i + 1]]_vars

\* Two different records were pending; the call returned the older one and
\* the newer one is still queued.
C15_OlderOfTwoReturned ==
    /\ ret = [op |-> "get_exceptions", value |-> "CancelledError"]
    /\ exception_queue = <<"KeyboardInterrupt">>

\* --------------------------------------------------------- History.add
\* The dates, symbols and bar fields of the tuples added.
Dates == {1, 2, 3}
Symbols == {"AAPL", "MSFT"}
Bars == {[close |-> 100]}

\* data: ((date, security), fields)
TupleData == {<<<<d, s>>, f>> : d \in Dates, s \in Symbols, f \in Bars}

\* An entry of the security level: a symbol (a str) or a Security object.
Symbol(s) == [ticker |-> s, object |-> FALSE]
Security(s) == [ticker |-> s, object |-> TRUE]

\* SecurityManager (dxlib/core/security.py): the registry of Security
\* objects by ticker.  "in" and get() take a symbol or a Security; add()
\* registers a Security for each ticker it is given; get() returns the
\* registered Security of that ticker.
SecurityManagerContains(sm, x) == x.ticker \in sm
SecurityManagerAdd(sm, xs) == sm \cup {x.ticker : x \in xs}
SecurityManagerGet(sm, x) == IF x.ticker \in sm THEN Security(x.ticker) ELSE x

\* History.add, line 306: a one-row frame whose index is built from the
\* tuple's key alone, its levels unnamed.
FromTuple(data) ==
    [names |-> <<None, None>>,
     rows |-> <<[date |-> data[1][1], security |-> Symbol(data[1][2]),
                 fields |-> data[2]]>>]

\* pd.concat([self.df, data]): the rows of both, in order; the index keeps
\* the first frame's level names (level_unique looks the level up by name
\* right after, line 314).
Concat(a, b) == [names |-> a.names, rows |-> a.rows \o b.rows]

\* History.level_unique(HistoryLevel.SECURITY)
LevelUnique(d) == {d.rows[i].security : i \in DOMAIN d.rows}

\* An update_df that only names the levels.
UpdateDfNamesOnly(d, sm) == [d EXCEPT !.names = <<"date", "security">>]

\* History.update_df: name the levels after the schema's levels and replace
\* the entries of the security level by the manager's Security objects.
UpdateDf(d, sm) ==
    [names |-> <<"date", "security">>,
     rows |-> [i \in DOMAIN d.rows |->
                  [d.rows[i] EXCEPT !.security = SecurityManagerGet(sm, @)]]]

\* History.add of a tuple, lines 303-317.
HistoryAdd(data) ==
    /\ Len(df.rows) < MaxRows
    /\ \E c \in {Concat(df, FromTuple(data))} :
       \E sm \in {SecurityManagerAdd(schema.securities,
                      {x \in LevelUnique(c) :
                          ~SecurityManagerContains(schema.securities, x)})} :
          /\ df' = UpdateDf(c, sm)
          /\ schema' = [securities |->
                           SecurityManagerAdd(sm,
                               {x \in LevelUnique(UpdateDf(c, sm)) :
                                   ~SecurityManagerContains(sm, x)})]
    /\ UNCHANGED <<listenerVars, pc, ret, managerVars, handlerVars, outVars>>
    /\ UNCHANGED <<endpoints, exception_queue, feed, websockets>>

\* A history constructed empty, to which tuples are added.
NextHistory == \E data \in TupleData : HistoryAdd(data)

SpecHistory == InitRun /\ [][NextHistory]_vars

C17_IdleOnceWorkerDone ==
    (/\ pc = "idle"
     /\ thread # 0
     /\ workers[thread].pc = "done"
     /\ workers[thread].items = <<>>) => ~running

\* C18: once stop() has been invoked on a manager whose consumption loop is
\* running (the flag is cleared and stop() waits for the worker), the loop
\* starts processing no further item: no batch is appended to the history
\* and no entry to the signal log while stop() waits.  (A worker step pulls
\* and processes one item, so no item is in flight between two steps: an
\* item consumed while stop() waits was pulled after the flag was cleared.)
C18_NoItemAfterStop ==
    [][pc = "stop_join_worker" =>
          /\ history' = history
          /\ Len(signals') = Len(signals)]_vars

\* ------------------------------------------------ push listener, start/stop
\* C19: when start() returns on a manager with a push listener, the
\* listener's transport is bound: its alive property is true in the state
\* right after the call.
C19_BoundWhenStartReturns ==
    [][(Start /\ useWebsocket) => WsAlive(ws)']_vars

\* C20: when stop() returns on a push listener that was started, whatever
\* its execution context had reached when stop() was called, the run flag is
\* clear, the acceptor is closed and not serving, and the context started
\* last has terminated.
C20_StoppedMeansClosed ==
    [][(StopReturns /\ useWebsocket /\ wsThreads # <<>>) =>
          (/\ ~ws.running
           /\ ws.server # "serving"
           /\ wsThreads[Len(wsThreads)] \notin {"bind", "loop"})']_vars

\* ------------------------------------------- consumption and connections
\* A manager serving one connection, which sends history and snapshot
\* messages while a worker consumes a source.
NextConcurrent ==
    \/ \E c \in SessionConns : Connect(c, "history")
    \/ \E c \in SessionConns, msg \in {x \in Msgs : x.key \in {"history", "snapshot"}} :
          Handle(c, msg)
    \/ \E src \in Sources : RunThreaded(src)
    \/ RunSetRunning
    \/ \E w \in 1..MaxWorkers : WorkerStep(w)
    \/ \E w \in 1..MaxWorkers : WorkerEnd(w)

SpecConcurrent == InitSession /\ [][NextConcurrent]_vars

\* The step is taken by the connection-handling context.
ConnectionStep == \E c \in SessionConns : StepOf(c)

\* C21: while a threaded run is consuming, no step of the connection-handling
\* context (a connect, a history or a snapshot message) writes the
\* accumulated history or the signal log: the worker is their only writer.
C21_SingleWriter ==
    [][(WorkerIsAlive(thread) /\ (history' # history \/ signals' # signals))
          => ~ConnectionStep]_vars

\* ------------------------------------------------------ execution contexts
\* The listener contexts, and the worker contexts, that are alive.
AliveListenerContexts == {t \in DOMAIN wsThreads : ThreadIsAlive(t)}
AliveWorkers == {w \in DOMAIN workers : WorkerIsAlive(w)}

\* C22: whatever start(), stop() and run(threaded) calls were made, at most
\* one execution context of the push listener and at most one consumption
\* context of the manager is alive.
C22_OneContextEach ==
    /\ Cardinality(AliveListenerContexts) <= 1
    /\ Cardinality(AliveWorkers) <= 1

\* ------------------------------------------------------- feed broadcaster
\* What a feed's source yields: frames, or the (index, Series) tuples of
\* iterrows() (feed_manager.py, line 88).
FeedSnapshots == {[type |-> t, rows |-> <<r>>] : t \in {"DataFrame", "tuple"}, r \in Rows}

\* History(snapshot), history.py lines 121-126: anything but a frame, a dict
\* or None raises ValueError.
HistoryInitRaises(snapshot) == snapshot.type \notin {"DataFrame", "dict"}

\* FeedMessageHandler.send_snapshot: line 74 serializes the History with
\* snapshot.to_json() before the loop over the connections, and History
\* defines no to_json: AttributeError, no send_message call.
SendSnapshot(connections, snapshot) == [exc |-> "AttributeError", sent |-> <<>>]

\* FeedManager._serve, lines 35-37, for one item of the source.
Broadcast(connections, snapshot) ==
    IF HistoryInitRaises(snapshot) THEN [exc |-> "ValueError", sent |-> <<>>]
    ELSE SendSnapshot(connections, snapshot)

FeedThreadIsAlive == feed.thread # 0 /\ feed.tpc \in {"entry", "loop", "ws_stop_check", "ws_stop_join"}

\* FeedManager.start: start the listener, then, with no broadcast thread
\* yet, set the flag and start one.
FeedStart ==
    /\ pc = "idle"
    /\ feed.caller = "idle"
    /\ Len(wsThreads) < MaxListenerThreads
    /\ ws' = WsStarted(ws)
    /\ wsThreads' = Append(wsThreads, "bind")
    /\ feed' = IF feed.thread = 0
               THEN [feed EXCEPT !.running = TRUE, !.thread = 1, !.tpc = "entry"]
               ELSE feed
    /\ ret' = [op |-> "start", value |-> None]
    /\ UNCHANGED <<useServer, useWebsocket, httpd, pc, managerVars, handlerVars, outVars>>
    /\ UNCHANGED <<endpoints, exception_queue, df, schema, websockets>>

\* FeedManager._serve, line 33: the flag is tested once, on entry.
FeedServeEnter ==
    /\ feed.tpc = "entry"
    /\ feed' = [feed EXCEPT !.tpc = IF feed.running THEN "loop" ELSE "done"]
    /\ UNCHANGED <<listenerVars, pc, ret, managerVars, handlerVars, outVars>>
    /\ UNCHANGED <<endpoints, exception_queue, df, schema, websockets>>

\* FeedManager._serve, lines 34-37: pull the next item and broadcast it; an
\* exception leaves _serve and ends the thread.
FeedServeItem ==
    /\ feed.tpc = "loop"
    /\ feed.items # <<>>
    /\ \E o \in {Broadcast(feed.connections, Head(feed.items))} :
          /\ sent' = o.sent
          /\ feed' = [feed EXCEPT !.items = Tail(@),
                                  !.tpc = IF o.exc # None THEN "failed" ELSE "loop"]
    /\ cycles' = <<>>
    /\ UNCHANGED <<listenerVars, pc, ret, managerVars, handlerVars>>
    /\ UNCHANGED <<endpoints, exception_queue, df, schema, websockets>>

\* FeedManager._serve, lines 38-39: the source is exhausted; clear the flag
\* and stop the listener (WebsocketServer.stop, lines 64-72).
FeedServeExhausted ==
    /\ feed.tpc = "loop"
    /\ feed.items = <<>>
    /\ IF WsAlreadyStopped(ws)
       THEN /\ ws' = ws
            /\ feed' = [feed EXCEPT !.running = FALSE, !.tpc = "done"]
       ELSE /\ ws' = WsStopClose(ws)
            /\ feed' = [feed EXCEPT !.running = FALSE, !.tpc = "ws_stop_check"]
    /\ UNCHANGED <<useServer, useWebsocket, httpd, wsThreads, pc, ret, managerVars,
                   handlerVars, outVars>>
    /\ UNCHANGED <<endpoints, exception_queue, df, schema, websockets>>

\* WebsocketServer.stop, line 74, called by the broadcast thread.
FeedWsStopCheck ==
    /\ feed.tpc = "ws_stop_check"
    /\ feed' = [feed EXCEPT !.tpc = IF ThreadIsAlive(ws.thread) THEN "ws_stop_join" ELSE "done"]
    /\ UNCHANGED <<listenerVars, pc, ret, managerVars, handlerVars, outVars>>
    /\ UNCHANGED <<endpoints, exception_queue, df, schema, websockets>>

\* WebsocketServer.stop, lines 75-79, called by the broadcast thread.
FeedWsStopJoin ==
    /\ feed.tpc = "ws_stop_join"
    /\ ~ThreadIsAlive(ws.thread)
    /\ ws' = [ws EXCEPT !.thread = 0]
    /\ feed' = [feed EXCEPT !.tpc = "done"]
    /\ UNCHANGED <<useServer, useWebsocket, httpd, wsThreads, pc, ret, managerVars,
                   handlerVars, outVars>>
    /\ UNCHANGED <<endpoints, exception_queue, df, schema, websockets>>

\* FeedManager.stop, line 51: stop the listener first.
FeedStop ==
    /\ pc = "idle"
    /\ feed.caller = "idle"
    /\ GenericStop
    /\ feed' = [feed EXCEPT !.caller = "stop"]
    /\ UNCHANGED <<managerVars, handlerVars, outVars>>
    /\ UNCHANGED <<endpoints, exception_queue, df, schema, websockets>>

\* FeedManager.stop, line 52: the listener is stopped; clear the flag.
FeedStopClear ==
    /\ pc = "idle"
    /\ feed.caller = "stop"
    /\ feed' = [feed EXCEPT !.running = FALSE, !.caller = "join"]
    /\ UNCHANGED <<listenerVars, pc, ret, managerVars, handlerVars, outVars>>
    /\ UNCHANGED <<endpoints, exception_queue, df, schema, websockets>>

\* FeedManager.stop, lines 54-56: join the broadcast thread, forget it.
FeedStopJoin ==
    /\ feed.caller = "join"
    /\ ~FeedThreadIsAlive
    /\ feed' = [feed EXCEPT !.thread = 0, !.tpc = "none", !.caller = "idle"]
    /\ UNCHANGED <<listenerVars, pc, ret, managerVars, handlerVars, outVars>>
    /\ UNCHANGED <<endpoints, exception_queue, df, schema, websockets>>

\* WebsocketServer.websocket_handler, line 24, with
\* FeedMessageHandler.connect: the connection joins the subscriber list.
FeedConnect(c) ==
    /\ conn[c] = "new"
    /\ Serving
    /\ conn' = [conn EXCEPT ![c] = "open"]
    /\ feed' = [feed EXCEPT !.connections = Append(@, c)]
    /\ UNCHANGED <<listenerVars, pc, ret, managerVars, registered_portfolios,
                   registered_histories, outVars>>
    /\ UNCHANGED <<endpoints, exception_queue, df, schema, websockets>>

\* WebsocketServer.websocket_handler, line 33, with
\* FeedMessageHandler.disconnect: connections.remove(websocket).
FeedDisconnect(c) ==
    /\ conn[c] = "open"
    /\ conn' = [conn EXCEPT ![c] = "closed"]
    /\ feed' = [feed EXCEPT !.connections = SelectSeq(@, LAMBDA x : x # c)]
    /\ UNCHANGED <<listenerVars, pc, ret, managerVars, registered_portfolios,
                   registered_histories, outVars>>
    /\ UNCHANGED <<endpoints, exception_queue, df, schema, websockets>>

\* A feed manager over a source of snapshots, started and stopped by its
\* owner while connections subscribe and leave.
InitFeed ==
    /\ useServer = FALSE
    /\ useWebsocket = TRUE
    /\ InitListeners
    /\ InitManager
    /\ endpoints = [http |-> EmptyMap, ws |-> EmptyMap]
    /\ exception_queue = <<>>
    /\ df = [names |-> <<"date", "security">>, rows |-> <<>>]
    /\ schema = [securities |-> {}]
    /\ websockets = EmptyMap
    /\ strategy = "last"
    /\ \E items \in SeqsUpTo(FeedSnapshots, MaxBatches) :
          feed = [running |-> FALSE, thread |-> 0, tpc |-> "none", items |-> items,
                  connections |-> <<>>, caller |-> "idle"]

NextFeed ==
    \/ FeedStart
    \/ FeedServeEnter
    \/ FeedServeItem
    \/ FeedServeExhausted
    \/ FeedWsStopCheck
    \/ FeedWsStopJoin
    \/ FeedStop
    \/ WsStopCheck
    \/ WsStopJoin
    \/ FeedStopClear
    \/ FeedStopJoin
    \/ ListenerStep
    \/ \E c \in Conns : FeedConnect(c)
    \/ \E c \in Conns : FeedDisconnect(c)

SpecFeed == InitFeed /\ [][NextFeed]_vars

\* What the channel's subscribers are to be sent for one item: the item,
\* serialized, once to each connection of the list, in list order.
PushedToEach(connections, snapshot) ==
    [i \in DOMAIN connections |->
        [to |-> connections[i], payload |-> [kind |-> "snapshot", rows |-> snapshot.rows]]]

\* C23: every item the broadcaster pulls from its source is pushed,
\* serialized, once to each connection of the subscriber list, in list order.
C23_EveryItemPushedToEach ==
    [][FeedServeItem => sent' = PushedToEach(feed.connections, Head(feed.items))]_vars

\* ------------------------------------------------------ faults of the loop
\* C24: a fault raised inside the listener's run loop is appended to the
\* listener's fault queue instead of being raised out of the loop; so for a
\* fault raised while binding the transport: the step in which a context's
\* bind fails puts one record on the queue, and the context goes on.
C24_BindFaultQueued ==
    [][\A t \in DOMAIN wsThreads :
          (wsThreads[t] = "bind" /\ wsThreads'[t] \notin {"bind", "loop"}) =>
              /\ Len(exception_queue') = Len(exception_queue) + 1
              /\ wsThreads'[t] # "failed"]_vars

\* ------------------------------------------------------- subscriber lists
\* Connection objects: two that expose send, one that does not.
Sockets == {[id |-> "c1", send |-> TRUE], [id |-> "c2", send |-> TRUE],
            [id |-> "x", send |-> FALSE]}

\* The channels named in calls.
Channels == RouteNames

\* self.websockets.get(endpoint, [])
SubscribersOf(wsk, endpoint) == IF endpoint \in DOMAIN wsk THEN wsk[endpoint] ELSE <<>>

\* An on_connect that appends before it validates.
OnConnectAppendsFirst(wsk, eps, websocket, endpoint) ==
    [exc |-> IF ~websocket.send THEN "ValueError: Invalid websocket connection"
             ELSE IF endpoint \notin DOMAIN eps THEN "ValueError: Invalid endpoint"
             ELSE None,
     websockets |-> SetItem(wsk, endpoint, Append(SubscribersOf(wsk, endpoint), websocket))]

\* WebsocketHandler.on_connect, lines 77-83: [exc, websockets].
OnConnect(wsk, eps, websocket, endpoint) ==
    IF ~websocket.send
    THEN [exc |-> "ValueError: Invalid websocket connection", websockets |-> wsk]
    ELSE IF endpoint \notin DOMAIN eps
    THEN [exc |-> "ValueError: Invalid endpoint", websockets |-> wsk]
    ELSE [exc |-> None,
          websockets |-> SetItem(wsk, endpoint, Append(SubscribersOf(wsk, endpoint), websocket))]

\* list.remove(x): the first occurrence goes.
RECURSIVE RemoveFirst(_, _)
RemoveFirst(seq, x) ==
    IF seq = <<>> THEN <<>>
    ELSE IF Head(seq) = x THEN Tail(seq)
    ELSE <<Head(seq)>> \o RemoveFirst(Tail(seq), x)

InSeq(seq, x) == \E i \in DOMAIN seq : seq[i] = x

\* WebsocketHandler.on_disconnect, lines 85-88: [exc, websockets].
\* self.websockets[endpoint] raises KeyError for a channel that never had a
\* subscriber, list.remove raises ValueError for a connection not in the list.
OnDisconnect(wsk, eps, websocket, endpoint) ==
    IF endpoint \notin DOMAIN eps
    THEN [exc |-> "ValueError: Invalid endpoint", websockets |-> wsk]
    ELSE IF endpoint \notin DOMAIN wsk
    THEN [exc |-> "KeyError", websockets |-> wsk]
    ELSE IF ~InSeq(wsk[endpoint], websocket)
    THEN [exc |-> "ValueError: list.remove(x): x not in list", websockets |-> wsk]
    ELSE [exc |-> None,
          websockets |-> SetItem(wsk, endpoint, RemoveFirst(wsk[endpoint], websocket))]

\* A call of on_connect.
OnConnectCall(websocket, endpoint) ==
    /\ Len(SubscribersOf(websockets, endpoint)) < MaxSubscribers
    /\ \E o \in {OnConnect(websockets, endpoints.ws, websocket, endpoint)} :
          /\ websockets' = o.websockets
          /\ ret' = [op |-> "on_connect", value |-> o.exc]
    /\ UNCHANGED <<listenerVars, pc, managerVars, handlerVars, outVars>>
    /\ UNCHANGED <<endpoints, exception_queue, df, schema, feed>>

\* A call of on_disconnect.
OnDisconnectCall(websocket, endpoint) ==
    /\ \E o \in {OnDisconnect(websockets, endpoints.ws, websocket, endpoint)} :
          /\ websockets' = o.websockets
          /\ ret' = [op |-> "on_disconnect", value |-> o.exc]
    /\ UNCHANGED <<listenerVars, pc, managerVars, handlerVars, outVars>>
    /\ UNCHANGED <<endpoints, exception_queue, df, schema, feed>>

\* The routes a push handler is given.
PushEndpoints == {e \in EndpointWrappers : e.method = "GET"}

\* A push handler whose channels are registered while connections are
\* connected to and disconnected from them.
NextSubscribers ==
    \/ \E e \in PushEndpoints : SetWsEndpoint(e, "f")
    \/ \E w \in Sockets, e \in Channels : OnConnectCall(w, e)
    \/ \E w \in Sockets, e \in Channels : OnDisconnectCall(w, e)

SpecSubscribers == InitRun /\ [][NextSubscribers]_vars

ChannelRegistered(e) == e \in DOMAIN endpoints.ws

\* C25, as claimed: on_connect appends the connection to the channel's list
\* exactly when the channel is registered and the connection exposes send;
\* with an unregistered channel it signals the unknown channel, with a
\* connection without send the invalid connection, and in both cases every
\* subscriber list is unchanged.
C25_ConnectValidates ==
    [][\A w \in Sockets, e \in Channels :
          OnConnectCall(w, e) =>
              /\ (ChannelRegistered(e) /\ w.send) <=>
                     websockets' = SetItem(websockets, e,
                                           Append(SubscribersOf(websockets, e), w))
              /\ ~ChannelRegistered(e) =>
                     /\ ret'.value = "ValueError: Invalid endpoint"
                     /\ websockets' = websockets
              /\ ~w.send =>
                     /\ ret'.value = "ValueError: Invalid websocket connection"
                     /\ websockets' = websockets]_vars

\* C25, amended: the connection is validated first; the unknown channel is
\* signalled for a connection that exposes send.
C25_ConnectValidatesConnectionFirst ==
    [][\A w \in Sockets, e \in Channels :
          OnConnectCall(w, e) =>
              /\ (ChannelRegistered(e) /\ w.send) <=>
                     websockets' = SetItem(websockets, e,
                                           Append(SubscribersOf(websockets, e), w))
              /\ (w.send /\ ~ChannelRegistered(e)) =>
                     /\ ret'.value = "ValueError: Invalid endpoint"
                     /\ websockets' = websockets
              /\ ~w.send =>
                     /\ ret'.value = "ValueError: Invalid websocket connection"
                     /\ websockets' = websockets]_vars

\* A connection was appended to a registered channel that had a subscriber,
\* and a later call with an unregistered channel was refused.
C25_RefusedAfterAppend ==
    /\ ret = [op |-> "on_connect", value |-> "ValueError: Invalid endpoint"]
    /\ \E e \in DOMAIN websockets : Len(websockets[e]) = 2
    /\ \E e \in Channels : ~ChannelRegistered(e)

\* C26: on_disconnect signals the unknown channel exactly when the channel
\* is not registered; for a registered channel it signals nothing, the
\* connection is then not in that channel's list and the other channels'
\* lists are as before, also when the channel never had a subscriber or the
\* connection was not in its list.
C26_DisconnectRemoves ==
    [][\A w \in Sockets, e \in Channels :
          OnDisconnectCall(w, e) =>
              /\ ~ChannelRegistered(e) <=> ret'.value = "ValueError: Invalid endpoint"
              /\ ChannelRegistered(e) =>
                     /\ ret'.value = None
                     /\ ~InSeq(SubscribersOf(websockets', e), w)
                     /\ \A e2 \in Channels \ {e} :
                            SubscribersOf(websockets', e2) = SubscribersOf(websockets, e2)]_vars

\* ------------------------------------------------ connections of a manager
\* C27: a connect on the portfolio channel, or on the history channel,
\* signals no error (the connection's receive loop starts) and registers an
\* empty portfolio, respectively an empty history, against the connection.
C27_ConnectSeedsRegistration ==
    [][\A c \in Conns :
          /\ Connect(c, "portfolio") =>
                 /\ conn'[c] = "open"
                 /\ registered_portfolios'[c] # 0
          /\ Connect(c, "history") =>
                 /\ conn'[c] = "open"
                 /\ registered_histories'[c].kind # "none"
                 /\ RegisteredRows(c)' = <<>>]_vars

\* C28: a connection whose receive loop has ended (closed by the client, or
\* ended by an exception of its handling) has no entry in the
\* registered-portfolio and registered-history maps.
C28_HeldOnlyWhileOpen ==
    \A c \in Conns :
        conn[c] \in {"closed", "failed"} =>
            /\ registered_portfolios[c] = 0
            /\ registered_histories[c].kind = "none"

\* ------------------------------------------------------ combined position
\* Portfolios whose holdings are positive, zero or negative (short).
Quantities == {0 - 1, 0, 1}
PositionDescs ==
    {[cash |-> 1, position |-> p] :
        p \in UNION {[S -> Quantities] : S \in SUBSET Securities}}

\* A manager whose owner registers such portfolios and runs one-batch sources.
NextPosition ==
    \/ \E d \in PositionDescs : Register(d)
    \/ \E src \in {x \in Sources : x.kind = "Generator" /\ Len(x.data) = 1} :
          RunBlocking(src)

SpecPosition == InitRun /\ [][NextPosition]_vars

\* The sum of a security's quantity over the portfolios, absent counting zero.
RECURSIVE QuantitySum(_, _)
QuantitySum(ps, sec) ==
    IF ps = <<>> THEN 0
    ELSE Get(Head(ps).position, sec) + QuantitySum(Tail(ps), sec)

\* C29: the combined position execute() passes to the strategy gives, for
\* each security, the sum of that security's quantity over all registered
\* portfolios (zero when no portfolio holds it), also for quantities and
\* sums that are zero or negative.
C29_CombinedPositionIsSum ==
    \A sec \in Securities :
        Get(CombinedPosition(portfolios), sec) = QuantitySum(portfolios, sec)

\* C30: handling a snapshot message while a threaded run is consuming does
\* not clear the run flag the active consumption loop tests.
C30_SnapshotKeepsRunFlag ==
    [][\A c \in SessionConns, msg \in Msgs :
          (WorkerIsAlive(thread) /\ msg.key = "snapshot" /\ Handle(c, msg))
              => running' = running]_vars

\* ------------------------------------------- one portfolio per connection
\* C31: after any sequence of portfolio messages, the manager's registered
\* portfolios (all of which came from messages here: no owner registers one)
\* are exactly the portfolios recorded in the per-connection
\* registered-portfolio map, so each connection contributes at most one.
C31_OnePortfolioPerConnection ==
    {i \in 1..Len(portfolios) : TRUE} =
        {registered_portfolios[c] : c \in RegisteredConns(registered_portfolios)}

====
